---- MODULE Spec2Model ----
(***************************************************************************)
(* Model of the MoE router (raw-agent-code/moe_router/main.py): the        *)
(* routing strategies, the dispatch to the expert agents, the request      *)
(* ledger (active_requests), the WebSocket broadcaster and the HTTP        *)
(* handlers.                                                               *)
(*                                                                         *)
(* Four specifications share the definitions:                              *)
(*   Spec          the whole service: POST /route, GET /requests/{id},     *)
(*                 and the /ws endpoint, as the handlers run;              *)
(*   SpecRoute     RouterStrategy.route called on its own;                 *)
(*   SpecDispatch  RouterOrchestrator._send_to_agents called on its own;   *)
(*   SpecBroadcast RouterOrchestrator._broadcast_update called on its own, *)
(*                 interleaved with the /ws endpoint.                      *)
(*                                                                         *)
(* Python values are modelled with a type tag where the code's behaviour   *)
(* depends on the type (json.loads / json.dumps / pydantic validation).    *)
(* Confidence values are in hundredths: 75 is 0.75.                        *)
(***************************************************************************)
EXTENDS Integers, Sequences, FiniteSets, TLC

\* ------------------------------------------------------------------ bounds
MaxSel == 2          \* longest selected_agents list a model output carries
MaxRouted == 2       \* route() calls in one behaviour of SpecRoute
MaxConns == 2        \* WebSocket clients in one behaviour of SpecBroadcast
MaxClients == 1      \* WebSocket clients in one behaviour of Spec
MaxBroadcasts == 2   \* _broadcast_update calls in one behaviour of SpecBroadcast
MaxTasks == 2        \* POST /route requests in one behaviour of Spec
MaxMessages == 1     \* client messages on /ws in one behaviour of Spec
MaxPatterns == 2     \* longest list of detected patterns in SpecFraud

\* --------------------------------------------------------- agent registry
\* AGENT_REGISTRY: the entries in the insertion order of the dict literal,
\* each with its key ("id") and its "type"
AGENT_REGISTRY ==
    << [id |-> "credit-agent", type |-> "credit"],
       [id |-> "fraud-agent", type |-> "fraud"],
       [id |-> "esg-agent", type |-> "esg"] >>

\* AGENT_REGISTRY.keys()
RegistryIds == {AGENT_REGISTRY[i].id : i \in 1..Len(AGENT_REGISTRY)}

\* an id a model can name that is not a key of AGENT_REGISTRY
UnknownAgent == "unknown-agent"

\* ----------------------------------------------------------- request types
RequestType == {"credit", "fraud", "esg", "general"}

\* ------------------------------------------------------------------ strings
\* request.content is a sequence of one-character strings, so that lower()
\* and the substring test `word in content_lower` are computed, not assumed.
LowerChar(c) ==
    CASE c = "A" -> "a" [] c = "B" -> "b" [] c = "C" -> "c" [] c = "D" -> "d"
      [] c = "E" -> "e" [] c = "F" -> "f" [] c = "G" -> "g" [] c = "H" -> "h"
      [] c = "I" -> "i" [] c = "J" -> "j" [] c = "K" -> "k" [] c = "L" -> "l"
      [] c = "M" -> "m" [] c = "N" -> "n" [] c = "O" -> "o" [] c = "P" -> "p"
      [] c = "Q" -> "q" [] c = "R" -> "r" [] c = "S" -> "s" [] c = "T" -> "t"
      [] c = "U" -> "u" [] c = "V" -> "v" [] c = "W" -> "w" [] c = "X" -> "x"
      [] c = "Y" -> "y" [] c = "Z" -> "z" [] OTHER -> c

\* str.lower()
Lower(s) == [i \in 1..Len(s) |-> LowerChar(s[i])]

\* `word in s` on strings: word occurs as a contiguous substring of s
Contains(word, s) ==
    \E i \in 1..(Len(s) - Len(word) + 1) : SubSeq(s, i, i + Len(word) - 1) = word

\* the keyword lists of RulesRouterStrategy.route
CreditWords == { <<"c","r","e","d","i","t">>, <<"l","o","a","n">>,
                 <<"s","c","o","r","e">> }
FraudWords == { <<"f","r","a","u","d">>,
                <<"s","u","s","p","i","c","i","o","u","s">>,
                <<"a","n","o","m","a","l","y">> }
EsgWords == { <<"e","s","g">>,
              <<"e","n","v","i","r","o","n","m","e","n","t","a","l">>,
              <<"s","u","s","t","a","i","n","a","b","i","l","i","t","y">> }

\* any(word in content_lower for word in words)
AnyWordIn(words, content_lower) == \E w \in words : Contains(w, content_lower)

\* the request contents the model submits
ContentCheck == <<"c","h","e","c","k"," ","t","h","i","s"," ",
                  "t","r","a","n","s","a","c","t","i","o","n">>
ContentLoanFraud == <<"L","o","a","n"," ","a","n","d"," ","F","R","A","U","D">>
ContentEsgScore == <<"E","S","G"," ","s","c","o","r","e">>
ContentHello == <<"h","e","l","l","o">>
ContentAnomaly == <<"a","n","o","m","a","l","y","!">>
ContentAll == <<"c","r","e","d","i","t"," ","f","r","a","u","d"," ","e","s","g">>

Contents == {ContentCheck, ContentLoanFraud, ContentEsgScore, ContentHello,
             ContentAnomaly, ContentAll}

\* ----------------------------------------------------------------- requests
ReqIds == {"r1", "r2"}

\* datetime.now(): a datetime object; the instant is not modelled, the type is
DatetimeNow == [py_type |-> "datetime"]


\* AgentRequest: id, type, content, timestamp (metadata is not read by the
\* router's control flow)
AgentRequest(id, type, content) ==
    [id |-> id, type |-> type, content |-> content, timestamp |-> DatetimeNow]

Requests == {AgentRequest(id, ty, c) : id \in ReqIds, ty \in RequestType, c \in Contents}

\* -------------------------------------------------------- routing decisions
RoutingDecision(request_id, selected_agents, reasoning, confidence) ==
    [request_id |-> request_id, selected_agents |-> selected_agents,
     reasoning |-> reasoning, confidence |-> confidence,
     timestamp |-> DatetimeNow]

NoDecision == [none |-> TRUE]

\* f"Content analysis routed to: {', '.join(selected_agents)}"
ContentReasoning(selected_agents) ==
    [text |-> "Content analysis routed to: ", joined |-> selected_agents]

TypeReasoning(text) == [text |-> text, joined |-> <<>>]

\* the three `if any(...)`: append of the general branch, in code order
KeywordAgents(content_lower) ==
    (IF AnyWordIn(CreditWords, content_lower) THEN <<"credit-agent">> ELSE <<>>)
    \o (IF AnyWordIn(FraudWords, content_lower) THEN <<"fraud-agent">> ELSE <<>>)
    \o (IF AnyWordIn(EsgWords, content_lower) THEN <<"esg-agent">> ELSE <<>>)

\* an else branch written as an elif chain: the first specialist whose
\* keywords hit is the only one selected
GeneralAgents_FirstHitOnly(content) ==
    LET hits == KeywordAgents(Lower(content))
    IN  IF hits = <<>> THEN <<"credit-agent">> ELSE <<hits[1]>>

\* an else branch without the `if not selected_agents` default
GeneralAgents_NoDefault(content) == KeywordAgents(Lower(content))

\* the else branch of RulesRouterStrategy.route
GeneralAgents(content) ==
    LET hits == KeywordAgents(Lower(content))
    IN  IF hits = <<>> THEN <<"credit-agent">> ELSE hits

RulesConfidence == 75

\* RulesRouterStrategy.route without its type branches: every request goes
\* through the content analysis
RulesRoute_NoTypeBranch(request) ==
    RoutingDecision(request.id, GeneralAgents(request.content),
        ContentReasoning(GeneralAgents(request.content)), RulesConfidence)

\* RulesRouterStrategy.route
RulesRoute(request) ==
    CASE request.type = "credit" ->
            RoutingDecision(request.id, <<"credit-agent">>,
                TypeReasoning("Credit request routed to credit specialist"),
                RulesConfidence)
      [] request.type = "fraud" ->
            RoutingDecision(request.id, <<"fraud-agent">>,
                TypeReasoning("Fraud detection request routed to fraud specialist"),
                RulesConfidence)
      [] request.type = "esg" ->
            RoutingDecision(request.id, <<"esg-agent">>,
                TypeReasoning("ESG request routed to ESG specialist"),
                RulesConfidence)
      [] OTHER ->
            RoutingDecision(request.id, GeneralAgents(request.content),
                ContentReasoning(GeneralAgents(request.content)),
                RulesConfidence)

\* ------------------------------------------------------------ model outputs
\* JSON values as json.loads returns them, tagged with their Python type
JMissing == [t |-> "missing"]            \* the key is not in the object
JNull == [t |-> "null"]                  \* None
JStr(v) == [t |-> "str", v |-> v]
JNum(v) == [t |-> "num", v |-> v]
JList(v) == [t |-> "list", v |-> v]

RECURSIVE SeqsUpTo(_, _)
SeqsUpTo(S, n) ==
    IF n = 0 THEN {<<>>}
    ELSE LET shorter == SeqsUpTo(S, n - 1)
         IN  shorter \cup {Append(s, x) : s \in {q \in shorter : Len(q) = n - 1}, x \in S}

NameableIds == RegistryIds \cup {UnknownAgent}

ModelReasoning == TypeReasoning("model reasoning")

\* values the model's JSON object carries under each key
SelectedValues ==
    {JMissing, JNull, JStr("credit-agent")}
    \cup {JList(s) : s \in SeqsUpTo(NameableIds, MaxSel)}
ReasoningValues == {JMissing, JNull, JStr(ModelReasoning)}
ConfidenceValues == {JMissing, JNull, JStr("high"), JNum(95), JNum(170), JNum(-10)}

JObject(sel, rea, conf) ==
    [t |-> "object", selected_agents |-> sel, reasoning |-> rea, confidence |-> conf]

\* what self.model.generate_content does: raise, or return text that is not
\* JSON, JSON that is not an object, or a JSON object
ModelOutcomes ==
    { [t |-> "raises"], [t |-> "not_json"], [t |-> "array"], [t |-> "json_null"] }
    \cup {JObject(s, r, c) : s \in SelectedValues, r \in ReasoningValues,
                             c \in ConfidenceValues}

\* a get that also answers the default for a value of None
DictGet_NoneIsMissing(value, default) ==
    IF value = JMissing \/ value = JNull THEN default ELSE value

\* dict.get(key, default)
DictGet(value, default) == IF value = JMissing THEN default ELSE value

\* pydantic validation of the RoutingDecision fields: List[str], str, float
ValidDecisionFields(sel, rea, conf) ==
    /\ sel.t = "list"
    /\ rea.t = "str"
    /\ conf.t = "num"

\* the try block of LLMRouterStrategy.route succeeds: the call returns, the
\* text parses, the parsed value has .get, and the decision validates
LLMDecodes(out) ==
    /\ out.t = "object"
    /\ ValidDecisionFields(DictGet(out.selected_agents, JList(<<>>)),
                           DictGet(out.reasoning, JStr(TypeReasoning(""))),
                           DictGet(out.confidence, JNum(80)))

\* an except branch that answers with an empty decision instead of the
\* rule-based one
LLMFallback_EmptyDecision(request) ==
    RoutingDecision(request.id, << >>, TypeReasoning("LLM routing failed"), 0)

\* the `except Exception` branch of LLMRouterStrategy.route
LLMFallback(request) == RulesRoute(request)

\* LLMRouterStrategy.route, given what the model call did
LLMRoute(request, out) ==
    IF LLMDecodes(out)
    THEN RoutingDecision(request.id,
             DictGet(out.selected_agents, JList(<<>>)).v,
             DictGet(out.reasoning, JStr(TypeReasoning(""))).v,
             DictGet(out.confidence, JNum(80)).v)
    ELSE LLMFallback(request)

\* ----------------------------------------------------------- expert calls
\* httpx.AsyncClient(timeout=30.0), in seconds
CallTimeout == 30

\* seconds an expert call that ends before the timeout can take
CallDurations == {1, 2}

\* what one POST {endpoint}/process can do
CallOutcomes ==
    { [t |-> "ok"],                 \* 2xx, body {"response": "<str>", ...}
      [t |-> "ok_no_response"],     \* 2xx, JSON object without "response"
      [t |-> "ok_bad_type"],        \* 2xx, "response" is null
      [t |-> "timeout"],            \* httpx.TimeoutException
      [t |-> "error", cause |-> "http_status"],   \* raise_for_status raises
      [t |-> "error", cause |-> "transport"],     \* connection error
      [t |-> "error", cause |-> "bad_body"] }     \* response.json() raises

\* the seconds the call lasts: the timeout for a call that times out
OutcomeDurations(outcome) ==
    IF outcome.t = "timeout" THEN {CallTimeout} ELSE CallDurations

\* RouterOrchestrator._call_agent: returns response.json().get("response", "")
\* or raises Exception
CallAgent(agent_id, outcome) ==
    CASE outcome.t = "ok" -> [ret |-> "return", value |-> JStr("answer")]
      [] outcome.t = "ok_no_response" -> [ret |-> "return", value |-> JStr("")]
      [] outcome.t = "ok_bad_type" -> [ret |-> "return", value |-> JNull]
      [] outcome.t = "timeout" ->
            [ret |-> "raise", exc |-> "Exception",
             message |-> <<"Agent", agent_id, "timed out">>]
      [] OTHER ->
            [ret |-> "raise", exc |-> "Exception",
             message |-> <<"Agent", agent_id, "error", outcome.cause>>]

\* AgentResponse(...).dict()
AgentResponse(request_id, agent_id, response, processing_time) ==
    [request_id |-> request_id, agent_id |-> agent_id, response |-> response,
     processing_time_ms |-> processing_time * 1000, timestamp |-> DatetimeNow]

\* the dict the except branch of _send_to_agents stores
ErrorEntry(agent_id, message) == [error |-> message, agent_id |-> agent_id]

\* an except clause that catches the validation error only
ExceptException_ValidationOnly == {"ValidationError"}

\* the exception classes `except Exception` of _send_to_agents catches
ExceptException == {"Exception", "ValidationError"}

\* the exception the try block of the second loop of _send_to_agents meets
\* for one awaited task: the one `await task` raises, or the ValidationError
\* of AgentResponse (response: str) on a value that is not a str
TryException(result) ==
    IF result.ret = "raise" THEN result.exc
    ELSE IF result.value.t # "str" THEN "ValidationError"
    ELSE "none"

\* the entry the body of the second loop stores under agent_id
ResponseEntry(request_id, agent_id, result, seconds) ==
    IF TryException(result) = "none"
    THEN AgentResponse(request_id, agent_id, result.value.v, seconds)
    ELSE IF result.ret = "raise"
         THEN ErrorEntry(agent_id, result.message)
         ELSE ErrorEntry(agent_id, <<"validation error", "response">>)

IsSuccess(entry) == "response" \in DOMAIN entry
IsFailure(entry) == "error" \in DOMAIN entry

\* a first loop without the `if agent_id in AGENT_REGISTRY` test
BuildTasks_NoRegistryTest(agent_ids) == agent_ids

\* the first loop of _send_to_agents: one coroutine per selected id that is
\* a key of AGENT_REGISTRY, in the order of agent_ids
BuildTasks(agent_ids) == SelectSeq(agent_ids, LAMBDA a : a \in RegistryIds)

\* dict with no key
EmptyDict == << >>

\* a store that writes the value under every key of the dict
DictSet_EveryKey(d, key, value) == [k \in DOMAIN d \cup {key} |-> value]

\* a store that replaces the dict by one holding the new key only
DictSet_Replace(d, key, value) == [k \in {key} |-> value]

\* d[key] = value
DictSet(d, key, value) ==
    [k \in DOMAIN d \cup {key} |-> IF k = key THEN value ELSE d[k]]

\* the agent_ids lists _send_to_agents is called with: the selected_agents
\* of the decisions the two strategies return
DispatchInputs ==
    {LLMRoute(request, out).selected_agents :
        request \in Requests, out \in ModelOutcomes}
    \cup {RulesRoute(request).selected_agents : request \in Requests}

\* the request _send_to_agents is called with in SpecDispatch
DispatchRequest == AgentRequest("r1", "general", ContentAll)

\* --------------------------------------------------------------- broadcast
\* WebSocket objects
Conns == 1..(IF MaxConns > MaxClients THEN MaxConns ELSE MaxClients)

\* the WebSocket clients of SpecBroadcast, and those of Spec
BroadcastConns == 1..MaxConns
ServiceConns == 1..MaxClients

\* calls of _broadcast_update in SpecBroadcast, numbered in call order
Broadcasts == 1..MaxBroadcasts

\* a .dict() of a pydantic model of this module holds a datetime object
\* under "timestamp" (RoutingDecision.timestamp, AgentResponse.timestamp)
HoldsDatetime(d) == "timestamp" \in DOMAIN d

\* the arguments of the two _broadcast_update calls of process_request
RoutingEvent(decision) == [type |-> "routing_decision", data |-> decision]
CompletedEvent(request_id, responses) ==
    [type |-> "request_completed",
     data |-> [request_id |-> request_id, responses |-> responses]]

\* json.dumps({"type":..., "data": data, "timestamp": isoformat}) raises
\* TypeError: some value inside data is a datetime object, which the default
\* JSONEncoder does not serialize
JsonDumpsRaises(event) ==
    IF event.type = "routing_decision"
    THEN HoldsDatetime(event.data)
    ELSE \E a \in DOMAIN event.data.responses :
             HoldsDatetime(event.data.responses[a])

\* list.remove(x) raises ValueError: x is not in the list
RemoveRaises(list, x) == \A i \in 1..Len(list) : list[i] # x

\* list.remove(x): the list without the first occurrence of x
ListRemove(list, x) ==
    LET first == CHOOSE i \in 1..Len(list) :
                     /\ list[i] = x
                     /\ \A j \in 1..(i - 1) : list[j] # x
    IN  SubSeq(list, 1, first - 1) \o SubSeq(list, first + 1, Len(list))

\* the next() of the list iterator of `for connection in
\* self.websocket_connections` that has yielded idx items: exhausted, or
\* the item at (0-based) position idx of the list as it is now
IterExhausted(list, idx) == idx >= Len(list)
IterItem(list, idx) == list[idx + 1]

\* the events _broadcast_update is called with in SpecBroadcast
BroadcastEvents ==
    { RoutingEvent(RulesRoute(AgentRequest("r1", "fraud", ContentCheck))),
      CompletedEvent("r1", EmptyDict),
      CompletedEvent("r1", DictSet(EmptyDict, "fraud-agent",
          AgentResponse("r1", "fraud-agent", "answer", 1))) }

NoEvent == [type |-> "none"]

\* ------------------------------------------------------------- the service
\* request tasks of POST /route, numbered in the order the requests arrive
Tasks == 1..MaxTasks

\* the requests and the model outputs Spec submits
ServiceRequests ==
    {AgentRequest(id, "fraud", ContentCheck) : id \in ReqIds}
    \cup {AgentRequest("r1", "general", ContentLoanFraud)}

ServiceModelOutcomes ==
    { [t |-> "raises"],
      JObject(JList(<<"fraud-agent", UnknownAgent>>), JStr(ModelReasoning), JNum(95)),
      JObject(JList(<<UnknownAgent>>), JStr(ModelReasoning), JNum(95)) }

\* a record that is stored as completed
OpenRecord_Completed(request, routing_decision) ==
    [request |-> request, routing |-> routing_decision,
     responses |-> EmptyDict, status |-> "completed"]

\* the dict process_request stores in active_requests[request.id]
OpenRecord(request, routing_decision) ==
    [request |-> request, routing |-> routing_decision,
     responses |-> EmptyDict, status |-> "processing"]

\* a lookup that answers 200 with an empty body for an unknown id
GetRequestStatusResult_NeverMissing(ledger, request_id) ==
    IF request_id \in DOMAIN ledger
    THEN [code |-> 200, body |-> ledger[request_id]]
    ELSE [code |-> 200, body |-> [detail |-> "none"]]

\* get_request_status: the record, or HTTPException(404)
GetRequestStatusResult(ledger, request_id) ==
    IF request_id \in DOMAIN ledger
    THEN [code |-> 200, body |-> ledger[request_id]]
    ELSE [code |-> 404, body |-> [detail |-> "Request not found"]]

NoLookup == [code |-> 0, body |-> [detail |-> "none"]]

\* --------------------------------------------------------- the fraud agent
\* FraudDetector.known_patterns
known_patterns ==
    << "card_present_followed_by_not_present",
       "rapid_small_transactions",
       "geographic_impossibility",
       "unusual_merchant_sequence",
       "dormant_account_sudden_activity" >>

\* FraudIndicators: six booleans
FraudIndicators ==
    [velocity_check : BOOLEAN, location_anomaly : BOOLEAN,
     amount_anomaly : BOOLEAN, merchant_risk : BOOLEAN,
     pattern_match : BOOLEAN, device_fingerprint : BOOLEAN]

\* the lists _detect_patterns returns: the known patterns among the names
\* the model gave, in the model's order, repetitions kept
DetectedPatterns ==
    SeqsUpTo({known_patterns[i] : i \in 1..Len(known_patterns)}, MaxPatterns)

\* FraudRiskLevel
FraudRiskLevel == {"low", "medium", "high", "critical"}

Min(a, b) == IF a <= b THEN a ELSE b

\* a score that is the sum of the weights, without the cap at 100
CalculateRiskScore_NoCap(indicators, patterns) ==
    (IF indicators.velocity_check THEN 20 ELSE 0)
    + (IF indicators.location_anomaly THEN 25 ELSE 0)
    + (IF indicators.amount_anomaly THEN 15 ELSE 0)
    + (IF indicators.merchant_risk THEN 15 ELSE 0)
    + (IF indicators.pattern_match THEN 30 ELSE 0)
    + (IF indicators.device_fingerprint THEN 20 ELSE 0)
    + Len(patterns) * 10

\* _calculate_risk_score: the weights of the indicators that are set, ten
\* per detected pattern, capped at 100 (the score is a float whose values
\* are whole numbers)
CalculateRiskScore(indicators, patterns) ==
    Min(100,
        (IF indicators.velocity_check THEN 20 ELSE 0)
        + (IF indicators.location_anomaly THEN 25 ELSE 0)
        + (IF indicators.amount_anomaly THEN 15 ELSE 0)
        + (IF indicators.merchant_risk THEN 15 ELSE 0)
        + (IF indicators.pattern_match THEN 30 ELSE 0)
        + (IF indicators.device_fingerprint THEN 20 ELSE 0)
        + Len(patterns) * 10)

\* _determine_fraud_status: (is_fraudulent, confidence), the confidence in
\* hundredths
DetermineFraudStatus(risk_score, indicators, patterns) ==
    LET critical_indicators ==
            << indicators.pattern_match,
               indicators.location_anomaly /\ indicators.velocity_check,
               Len(patterns) >= 2 >>
        any == \E i \in 1..Len(critical_indicators) : critical_indicators[i]
    IN  IF any \/ risk_score >= 70
        THEN [is_fraudulent |-> TRUE, confidence |-> Min(95, risk_score + 20)]
        ELSE IF risk_score >= 50
        THEN [is_fraudulent |-> TRUE, confidence |-> risk_score]
        ELSE [is_fraudulent |-> FALSE, confidence |-> 100 - risk_score]

\* _get_risk_level
GetRiskLevel(risk_score) ==
    IF risk_score >= 80 THEN "critical"
    ELSE IF risk_score >= 60 THEN "high"
    ELSE IF risk_score >= 30 THEN "medium"
    ELSE "low"

\* _get_recommended_action
GetRecommendedAction(is_fraudulent, risk_level) ==
    IF is_fraudulent
    THEN IF risk_level = "critical"
         THEN "BLOCK - Immediate transaction denial and account review required"
         ELSE IF risk_level = "high"
         THEN "BLOCK - Transaction denied, customer verification required"
         ELSE "REVIEW - Manual review required before processing"
    ELSE IF risk_level = "medium"
         THEN "MONITOR - Allow with enhanced monitoring"
         ELSE "APPROVE - Transaction can proceed normally"

NoIndicators ==
    [velocity_check |-> FALSE, location_anomaly |-> FALSE,
     amount_anomaly |-> FALSE, merchant_risk |-> FALSE,
     pattern_match |-> FALSE, device_fingerprint |-> FALSE]

\* ================================================================== state
VARIABLES
    \* --- RouterStrategy.route called on its own (SpecRoute)
    r_strategy,        \* "llm" | "rules": the strategy object route is called on
    r_pc,              \* "idle" | "model_call" | "returned"
    r_request,         \* the request being routed
    r_out,             \* what the model call of this route() did
    r_decision,        \* the RoutingDecision route() returned
    r_raised,          \* route() raised to its caller
    r_model_calls,     \* calls of generate_content made for r_request
    r_routed           \* route() calls made so far

routeVars == <<r_strategy, r_pc, r_request, r_out, r_decision, r_raised,
               r_model_calls, r_routed>>

VARIABLES
    \* --- RouterOrchestrator._send_to_agents called on its own (SpecDispatch)
    d_pc,              \* "idle" | "in_call" | "returned"
    d_ids,             \* the agent_ids argument
    d_tasks,           \* the agent ids of the coroutines built by the first loop
    d_i,               \* index in d_tasks of the task being awaited
    d_started,         \* indexes of the tasks whose call has begun to run
    d_calls,           \* agent id -> POSTs issued to that agent
    d_ended,           \* per task of d_tasks that ended: what its call did
    d_responses,       \* the responses dict
    d_elapsed,         \* seconds since _send_to_agents was called
    d_slowest,         \* seconds of the longest call so far
    d_raised           \* _send_to_agents raised to its caller

dispVars == <<d_pc, d_ids, d_tasks, d_i, d_started, d_calls, d_ended, d_responses,
              d_elapsed, d_slowest, d_raised>>

VARIABLES
    \* --- the broadcaster and the /ws endpoint
    websocket_connections,  \* orchestrator.websocket_connections (a list)
    ws_pc,             \* per WebSocket: "new" | "open" | "closed" | "crashed"
    ws_pongs,          \* per WebSocket: pongs sent to it
    ws_received,       \* client messages received on all WebSockets
    \* --- RouterOrchestrator._broadcast_update called on its own (SpecBroadcast)
    b_pc,              \* per call: "idle" | "sending" | "done" | "raised"
    b_event,           \* per call: its event
    b_idx,             \* per call: items the list iterator has yielded
    b_conn,            \* per call: the connection of the send in progress
    b_exc,             \* per call: the exception it raised
    b_snapshot,        \* per call: the connections in the list at its start
    b_attempted,       \* <<call, connection>>: send_text was called
    b_delivered,       \* <<call, connection>>: send_text returned
    b_failed           \* <<call, connection>>: send_text raised

wsVars == <<websocket_connections, ws_pc, ws_pongs, ws_received>>

bcastVars == <<b_pc, b_event, b_idx, b_conn, b_exc, b_snapshot, b_attempted,
               b_delivered, b_failed>>

VARIABLES
    \* --- the service (Spec)
    strategy,          \* "llm" | "rules": orchestrator.strategy
    active_requests,   \* orchestrator.active_requests: request id -> record
    t_pc,              \* per task: "idle" | "model_call" | "broadcasting" | "done"
    t_request,         \* per task: its request
    t_decision,        \* per task: routing_decision of process_request
    t_http,            \* per task: status of the HTTP response (0: none yet)
    t_exc,             \* per task: the exception route_request caught
    t_result,          \* per task: the aggregate route_request returned
    events,            \* the events json.dumps serialized, in broadcast order
    lookup             \* the last answer of GET /requests/{request_id}

svcVars == <<strategy, active_requests, t_pc, t_request, t_decision, t_http,
             t_exc, t_result, events, lookup>>

VARIABLES
    \* --- FraudDetector.detect from its scoring on (SpecFraud)
    f_pc,                  \* "idle" | "start" | "scored" | "judged" | "levelled" | "done"
    f_indicators,          \* indicators of detect()
    f_patterns,            \* patterns of detect()
    f_risk_score,          \* risk_score of detect()
    f_is_fraudulent,       \* is_fraudulent of detect()
    f_confidence,          \* confidence of detect(), in hundredths
    f_risk_level,          \* risk_level of detect()
    f_recommended_action   \* recommended_action of detect()

fraudVars == <<f_pc, f_indicators, f_patterns, f_risk_score, f_is_fraudulent,
               f_confidence, f_risk_level, f_recommended_action>>

vars == <<routeVars, dispVars, wsVars, bcastVars, svcVars, fraudVars>>

NoRequest == [none |-> TRUE]
NoResult == [none |-> TRUE]
NoOutcome == [t |-> "none"]

\* _send_to_agents has not been called
DispatchIdle ==
    /\ d_pc = "idle"
    /\ d_ids = << >>
    /\ d_tasks = << >>
    /\ d_i = 0
    /\ d_started = {}
    /\ d_calls = [a \in NameableIds |-> 0]
    /\ d_ended = << >>
    /\ d_responses = EmptyDict
    /\ d_elapsed = 0
    /\ d_slowest = 0
    /\ d_raised = FALSE

\* no WebSocket client has connected
WsIdle ==
    /\ websocket_connections = << >>
    /\ ws_pc = [c \in Conns |-> "new"]
    /\ ws_pongs = [c \in Conns |-> 0]
    /\ ws_received = 0

\* _broadcast_update has not been called
BroadcastIdle ==
    /\ b_pc = [b \in Broadcasts |-> "idle"]
    /\ b_event = [b \in Broadcasts |-> NoEvent]
    /\ b_idx = [b \in Broadcasts |-> 0]
    /\ b_conn = [b \in Broadcasts |-> 0]
    /\ b_exc = [b \in Broadcasts |-> "none"]
    /\ b_snapshot = [b \in Broadcasts |-> {}]
    /\ b_attempted = {}
    /\ b_delivered = {}
    /\ b_failed = {}

\* no request has been submitted
ServiceIdle ==
    /\ active_requests = EmptyDict
    /\ t_pc = [t \in Tasks |-> "idle"]
    /\ t_request = [t \in Tasks |-> NoRequest]
    /\ t_decision = [t \in Tasks |-> NoDecision]
    /\ t_http = [t \in Tasks |-> 0]
    /\ t_exc = [t \in Tasks |-> "none"]
    /\ t_result = [t \in Tasks |-> NoResult]
    /\ events = << >>
    /\ lookup = NoLookup

\* detect() has not been called
FraudIdle ==
    /\ f_pc = "idle"
    /\ f_indicators = NoIndicators
    /\ f_patterns = << >>
    /\ f_risk_score = 0
    /\ f_is_fraudulent = FALSE
    /\ f_confidence = 0
    /\ f_risk_level = "none"
    /\ f_recommended_action = "none"

\* ------------------------------------------------ SpecRoute: route() alone
RouteIdle ==
    /\ r_pc = "idle"
    /\ r_request = NoRequest
    /\ r_out = NoOutcome
    /\ r_decision = NoDecision
    /\ r_raised = FALSE
    /\ r_model_calls = 0
    /\ r_routed = 0

\* a strategy object that counts its calls and lowers the confidence of
\* each further decision
RouteRules_CountsCalls(request) ==
    /\ r_strategy = "rules"
    /\ r_pc = "idle"
    /\ r_routed < MaxRouted
    /\ r_request' = request
    /\ r_out' = NoOutcome
    /\ r_decision' = [RulesRoute(request) EXCEPT !.confidence = @ - r_routed]
    /\ r_raised' = FALSE
    /\ r_model_calls' = 0
    /\ r_routed' = r_routed + 1
    /\ r_pc' = "returned"
    /\ UNCHANGED r_strategy
    /\ UNCHANGED <<dispVars, wsVars, bcastVars, svcVars, fraudVars>>
\* RulesRouterStrategy.route: no await inside, it runs to its return
RouteRules(request) ==
    /\ r_strategy = "rules"
    /\ r_pc = "idle"
    /\ r_routed < MaxRouted
    /\ r_request' = request
    /\ r_out' = NoOutcome
    /\ r_decision' = RulesRoute(request)
    /\ r_raised' = FALSE
    /\ r_model_calls' = 0
    /\ r_routed' = r_routed + 1
    /\ r_pc' = "returned"
    /\ UNCHANGED r_strategy
    /\ UNCHANGED <<dispVars, wsVars, bcastVars, svcVars, fraudVars>>
\* LLMRouterStrategy.route up to `await asyncio.to_thread(generate_content)`
RouteLLMCall(request) ==
    /\ r_strategy = "llm"
    /\ r_pc = "idle"
    /\ r_routed < MaxRouted
    /\ r_request' = request
    /\ r_out' = NoOutcome
    /\ r_decision' = NoDecision
    /\ r_raised' = FALSE
    /\ r_model_calls' = 1
    /\ r_routed' = r_routed + 1
    /\ r_pc' = "model_call"
    /\ UNCHANGED r_strategy
    /\ UNCHANGED <<dispVars, wsVars, bcastVars, svcVars, fraudVars>>
\* a strategy that calls the model a second time when the first call or its
\* output fails
RouteLLMReturn_Retry(out) ==
    /\ r_pc = "model_call"
    /\ IF ~LLMDecodes(out) /\ r_model_calls < 2
       THEN /\ r_model_calls' = r_model_calls + 1
            /\ UNCHANGED <<r_pc, r_out, r_decision, r_raised>>
       ELSE /\ r_out' = out
            /\ r_decision' = LLMRoute(r_request, out)
            /\ r_raised' = FALSE
            /\ r_pc' = "returned"
            /\ UNCHANGED r_model_calls
    /\ UNCHANGED <<r_strategy, r_request, r_routed>>
    /\ UNCHANGED <<dispVars, wsVars, bcastVars, svcVars, fraudVars>>
\* LLMRouterStrategy.route from the end of the model call to its return:
\* json.loads, RoutingDecision(...), or the except branch
RouteLLMReturn(out) ==
    /\ r_pc = "model_call"
    /\ r_out' = out
    /\ r_decision' = LLMRoute(r_request, out)
    /\ r_raised' = FALSE
    /\ r_pc' = "returned"
    /\ UNCHANGED <<r_strategy, r_request, r_model_calls, r_routed>>
    /\ UNCHANGED <<dispVars, wsVars, bcastVars, svcVars, fraudVars>>
\* the caller takes the decision and drops the locals of the call; the
\* strategy object is ready for another call
RouteAgain ==
    /\ r_pc = "returned"
    /\ r_pc' = "idle"
    /\ r_request' = NoRequest
    /\ r_out' = NoOutcome
    /\ r_decision' = NoDecision
    /\ r_model_calls' = 0
    /\ UNCHANGED <<r_strategy, r_raised, r_routed>>
    /\ UNCHANGED <<dispVars, wsVars, bcastVars, svcVars, fraudVars>>
InitRoute ==
    /\ r_strategy \in {"llm", "rules"}
    /\ RouteIdle
    /\ DispatchIdle
    /\ WsIdle
    /\ BroadcastIdle
    /\ strategy = "rules"
    /\ ServiceIdle
    /\ FraudIdle

NextRoute ==
    \/ \E request \in Requests : RouteRules(request)
    \/ \E request \in Requests : RouteLLMCall(request)
    \/ \E out \in ModelOutcomes : RouteLLMReturn(out)
    \/ RouteAgain

SpecRoute == InitRoute /\ [][NextRoute]_vars

\* ------------------------------------- SpecDispatch: _send_to_agents alone
\* a dispatch that starts every call as a task and returns without awaiting
SendToAgents_FireAndForget(agent_ids) ==
    /\ d_pc = "idle"
    /\ d_ids' = agent_ids
    /\ d_tasks' = BuildTasks(agent_ids)
    /\ d_responses' = EmptyDict
    /\ d_ended' = << >>
    /\ d_raised' = FALSE
    /\ d_pc' = "returned"
    /\ d_i' = 0
    /\ d_started' = 1..Len(BuildTasks(agent_ids))
    /\ d_calls' = [a \in NameableIds |->
           d_calls[a] + Cardinality({i \in 1..Len(BuildTasks(agent_ids)) :
                                        BuildTasks(agent_ids)[i] = a})]
    /\ UNCHANGED <<d_elapsed, d_slowest>>
    /\ UNCHANGED <<routeVars, wsVars, bcastVars, svcVars, fraudVars>>
\* _send_to_agents from its call to its first suspension: the first loop
\* builds the coroutines (none runs yet); the second loop awaits the first
\* one, which runs _call_agent up to client.post. With no task it returns {}.
SendToAgents(agent_ids) ==
    /\ d_pc = "idle"
    /\ d_ids' = agent_ids
    /\ d_tasks' = BuildTasks(agent_ids)
    /\ d_responses' = EmptyDict
    /\ d_ended' = << >>
    /\ d_raised' = FALSE
    /\ IF BuildTasks(agent_ids) = << >>
       THEN /\ d_pc' = "returned"
            /\ UNCHANGED <<d_i, d_started, d_calls>>
       ELSE /\ d_pc' = "in_call"
            /\ d_i' = 1
            /\ d_started' = {1}
            /\ d_calls' = [d_calls EXCEPT ![BuildTasks(agent_ids)[1]] = @ + 1]
    /\ UNCHANGED <<d_elapsed, d_slowest>>
    /\ UNCHANGED <<routeVars, wsVars, bcastVars, svcVars, fraudVars>>
\* the awaited call ends: the loop body stores its entry, then either awaits
\* the next task (whose call begins only now) or returns responses
AgentCallEnds(outcome, seconds) ==
    /\ d_pc = "in_call"
    /\ seconds \in OutcomeDurations(outcome)
    /\ d_ended' = Append(d_ended, [outcome |-> outcome, seconds |-> seconds])
    /\ d_elapsed' = d_elapsed + seconds
    /\ d_slowest' = IF seconds > d_slowest THEN seconds ELSE d_slowest
    /\ LET result == CallAgent(d_tasks[d_i], outcome)
           caught == TryException(result) \in ExceptException \cup {"none"}
       IN  /\ d_responses' =
                 IF caught
                 THEN DictSet(d_responses, d_tasks[d_i],
                          ResponseEntry(DispatchRequest.id, d_tasks[d_i],
                                        result, seconds))
                 ELSE d_responses
           /\ d_raised' = ~caught
           /\ IF caught /\ d_i < Len(d_tasks)
              THEN /\ d_i' = d_i + 1
                   /\ d_started' = d_started \cup {d_i + 1}
                   /\ d_calls' = [d_calls EXCEPT ![d_tasks[d_i + 1]] = @ + 1]
                   /\ d_pc' = "in_call"
              ELSE /\ d_pc' = "returned"
                   /\ UNCHANGED <<d_i, d_started, d_calls>>
    /\ UNCHANGED <<d_ids, d_tasks>>
    /\ UNCHANGED <<routeVars, wsVars, bcastVars, svcVars, fraudVars>>
InitDispatch ==
    /\ r_strategy = "rules"
    /\ RouteIdle
    /\ DispatchIdle
    /\ WsIdle
    /\ BroadcastIdle
    /\ strategy = "rules"
    /\ ServiceIdle
    /\ FraudIdle

NextDispatch ==
    \/ \E agent_ids \in DispatchInputs : SendToAgents(agent_ids)
    \/ \E outcome \in CallOutcomes, seconds \in CallDurations \cup {CallTimeout} :
          AgentCallEnds(outcome, seconds)

SpecDispatch == InitDispatch /\ [][NextDispatch]_vars

\* an endpoint that replays to a new client the events broadcast before
WsConnect_Replay(c) ==
    /\ ws_pc[c] = "new"
    /\ \A earlier \in 1..(c - 1) : ws_pc[earlier] # "new"
    /\ ws_pc' = [ws_pc EXCEPT ![c] = "open"]
    /\ websocket_connections' = Append(websocket_connections, c)
    /\ b_delivered' = b_delivered
           \cup {<<b, c>> : b \in {x \in Broadcasts : b_pc[x] = "done"}}
    /\ UNCHANGED <<ws_pongs, ws_received>>
    /\ UNCHANGED <<b_pc, b_event, b_idx, b_conn, b_exc, b_snapshot,
                   b_attempted, b_failed>>
    /\ UNCHANGED <<routeVars, dispVars, svcVars, fraudVars>>
\* ------------------------------------------------------- the /ws endpoint
\* websocket_endpoint: accept, then append to the list (the WebSocket
\* objects are numbered in the order they are accepted)
WsConnect(c) ==
    /\ ws_pc[c] = "new"
    /\ \A earlier \in 1..(c - 1) : ws_pc[earlier] # "new"
    /\ ws_pc' = [ws_pc EXCEPT ![c] = "open"]
    /\ websocket_connections' = Append(websocket_connections, c)
    /\ UNCHANGED <<ws_pongs, ws_received>>
    /\ UNCHANGED <<routeVars, dispVars, bcastVars, svcVars, fraudVars>>
\* websocket_endpoint: receive_text raises WebSocketDisconnect; the handler
\* removes the connection from the list, and list.remove raises ValueError
\* when a broadcast has removed it already
WsDisconnect(c) ==
    /\ ws_pc[c] = "open"
    /\ IF RemoveRaises(websocket_connections, c)
       THEN /\ ws_pc' = [ws_pc EXCEPT ![c] = "crashed"]
            /\ UNCHANGED websocket_connections
       ELSE /\ ws_pc' = [ws_pc EXCEPT ![c] = "closed"]
            /\ websocket_connections' = ListRemove(websocket_connections, c)
    /\ UNCHANGED <<ws_pongs, ws_received>>
    /\ UNCHANGED <<routeVars, dispVars, bcastVars, svcVars, fraudVars>>
\* a handler that answers a client message with two pongs
WsMessage_TwoPongs(c, send) ==
    /\ ws_pc[c] = "open"
    /\ ws_received < MaxMessages
    /\ ws_received' = ws_received + 1
    /\ ws_pongs' = [ws_pongs EXCEPT ![c] = @ + 2]
    /\ UNCHANGED <<ws_pc, websocket_connections>>
    /\ UNCHANGED <<routeVars, dispVars, bcastVars, svcVars, fraudVars>>
\* websocket_endpoint: receive_text returns a client message and the handler
\* sends the pong; the send returns, or raises WebSocketDisconnect (caught:
\* the connection is removed from the list) or another exception (not
\* caught: the handler ends and the list keeps the connection)
WsMessage(c, send) ==
    /\ ws_pc[c] = "open"
    /\ ws_received < MaxMessages
    /\ ws_received' = ws_received + 1
    /\ CASE send = "ok" ->
              /\ ws_pongs' = [ws_pongs EXCEPT ![c] = @ + 1]
              /\ UNCHANGED <<ws_pc, websocket_connections>>
         [] send = "WebSocketDisconnect" ->
              /\ IF RemoveRaises(websocket_connections, c)
                 THEN /\ ws_pc' = [ws_pc EXCEPT ![c] = "crashed"]
                      /\ UNCHANGED websocket_connections
                 ELSE /\ ws_pc' = [ws_pc EXCEPT ![c] = "closed"]
                      /\ websocket_connections' =
                             ListRemove(websocket_connections, c)
              /\ UNCHANGED ws_pongs
         [] OTHER ->
              /\ ws_pc' = [ws_pc EXCEPT ![c] = "crashed"]
              /\ UNCHANGED <<ws_pongs, websocket_connections>>
    /\ UNCHANGED <<routeVars, dispVars, bcastVars, svcVars, fraudVars>>
\* ---------------------------------- SpecBroadcast: _broadcast_update alone
\* the iteration step of the for loop of _broadcast_update for call b, with
\* the list as it is at that moment: take the next connection and call
\* send_text on it, or leave the loop
BroadcastIterate(b, list, idx) ==
    IF IterExhausted(list, idx)
    THEN /\ b_pc' = [b_pc EXCEPT ![b] = "done"]
         /\ b_conn' = [b_conn EXCEPT ![b] = 0]
         /\ b_idx' = [b_idx EXCEPT ![b] = idx]
         /\ UNCHANGED b_attempted
    ELSE /\ b_pc' = [b_pc EXCEPT ![b] = "sending"]
         /\ b_conn' = [b_conn EXCEPT ![b] = IterItem(list, idx)]
         /\ b_idx' = [b_idx EXCEPT ![b] = idx + 1]
         /\ b_attempted' = b_attempted \cup {<<b, IterItem(list, idx)>>}

\* _broadcast_update from its call to its first suspension: json.dumps of
\* the message, then the first iteration of the loop
BroadcastUpdate(b, event) ==
    /\ b_pc[b] = "idle"
    /\ \A earlier \in 1..(b - 1) : b_pc[earlier] # "idle"
    /\ b_event' = [b_event EXCEPT ![b] = event]
    /\ b_snapshot' = [b_snapshot EXCEPT ![b] =
           {websocket_connections[i] : i \in 1..Len(websocket_connections)}]
    /\ IF JsonDumpsRaises(event)
       THEN /\ b_pc' = [b_pc EXCEPT ![b] = "raised"]
            /\ b_exc' = [b_exc EXCEPT ![b] = "TypeError"]
            /\ UNCHANGED <<b_idx, b_conn, b_attempted>>
       ELSE /\ BroadcastIterate(b, websocket_connections, 0)
            /\ UNCHANGED b_exc
    /\ UNCHANGED <<b_delivered, b_failed>>
    /\ UNCHANGED <<routeVars, dispVars, wsVars, svcVars, fraudVars>>
\* `await connection.send_text(message)` of call b returns: next iteration
BroadcastSendOk(b) ==
    /\ b_pc[b] = "sending"
    /\ b_delivered' = b_delivered \cup {<<b, b_conn[b]>>}
    /\ BroadcastIterate(b, websocket_connections, b_idx[b])
    /\ UNCHANGED <<b_event, b_exc, b_snapshot, b_failed>>
    /\ UNCHANGED <<routeVars, dispVars, wsVars, svcVars, fraudVars>>
\* an except branch that logs the failure and keeps the connection
BroadcastSendFails_NoRemove(b) ==
    /\ b_pc[b] = "sending"
    /\ b_failed' = b_failed \cup {<<b, b_conn[b]>>}
    /\ BroadcastIterate(b, websocket_connections, b_idx[b])
    /\ UNCHANGED <<b_event, b_exc, b_snapshot, b_delivered>>
    /\ UNCHANGED <<routeVars, dispVars, wsVars, svcVars, fraudVars>>
\* `await connection.send_text(message)` of call b raises: the bare except
\* removes the connection from the list, then the loop goes on; the remove
\* raises ValueError out of _broadcast_update if the connection is no longer
\* in the list
BroadcastSendFails(b) ==
    /\ b_pc[b] = "sending"
    /\ b_failed' = b_failed \cup {<<b, b_conn[b]>>}
    /\ IF RemoveRaises(websocket_connections, b_conn[b])
       THEN /\ b_pc' = [b_pc EXCEPT ![b] = "raised"]
            /\ b_exc' = [b_exc EXCEPT ![b] = "ValueError"]
            /\ UNCHANGED <<websocket_connections, b_idx, b_conn, b_attempted>>
       ELSE /\ websocket_connections' =
                   ListRemove(websocket_connections, b_conn[b])
            /\ BroadcastIterate(b, ListRemove(websocket_connections, b_conn[b]),
                                b_idx[b])
            /\ UNCHANGED b_exc
    /\ UNCHANGED <<b_event, b_snapshot, b_delivered>>
    /\ UNCHANGED <<routeVars, dispVars, ws_pc, ws_pongs, ws_received, svcVars, fraudVars>>
InitBroadcast ==
    /\ r_strategy = "rules"
    /\ RouteIdle
    /\ DispatchIdle
    /\ WsIdle
    /\ BroadcastIdle
    /\ strategy = "rules"
    /\ ServiceIdle
    /\ FraudIdle

NextBroadcast ==
    \/ \E c \in BroadcastConns : WsConnect(c)
    \/ \E c \in BroadcastConns : WsDisconnect(c)
    \/ \E b \in Broadcasts, event \in BroadcastEvents : BroadcastUpdate(b, event)
    \/ \E b \in Broadcasts : BroadcastSendOk(b)
    \/ \E b \in Broadcasts : BroadcastSendFails(b)

SpecBroadcast == InitBroadcast /\ [][NextBroadcast]_vars

\* --------------------------------- SpecFraud: the scoring of detect() alone
\* detect(): risk_score = self._calculate_risk_score(indicators, patterns)
FraudScore ==
    /\ f_pc = "start"
    /\ f_risk_score' = CalculateRiskScore(f_indicators, f_patterns)
    /\ f_pc' = "scored"
    /\ UNCHANGED <<f_indicators, f_patterns, f_is_fraudulent, f_confidence,
                   f_risk_level, f_recommended_action>>
    /\ UNCHANGED <<routeVars, dispVars, wsVars, bcastVars, svcVars>>

\* detect(): is_fraudulent, confidence = self._determine_fraud_status(...)
FraudStatus ==
    /\ f_pc = "scored"
    /\ LET status == DetermineFraudStatus(f_risk_score, f_indicators, f_patterns)
       IN  /\ f_is_fraudulent' = status.is_fraudulent
           /\ f_confidence' = status.confidence
    /\ f_pc' = "judged"
    /\ UNCHANGED <<f_indicators, f_patterns, f_risk_score, f_risk_level,
                   f_recommended_action>>
    /\ UNCHANGED <<routeVars, dispVars, wsVars, bcastVars, svcVars>>

\* detect(): risk_level = self._get_risk_level(risk_score)
FraudLevel ==
    /\ f_pc = "judged"
    /\ f_risk_level' = GetRiskLevel(f_risk_score)
    /\ f_pc' = "levelled"
    /\ UNCHANGED <<f_indicators, f_patterns, f_risk_score, f_is_fraudulent,
                   f_confidence, f_recommended_action>>
    /\ UNCHANGED <<routeVars, dispVars, wsVars, bcastVars, svcVars>>

\* detect(): recommended_action = self._get_recommended_action(...)
FraudAction ==
    /\ f_pc = "levelled"
    /\ f_recommended_action' = GetRecommendedAction(f_is_fraudulent, f_risk_level)
    /\ f_pc' = "done"
    /\ UNCHANGED <<f_indicators, f_patterns, f_risk_score, f_is_fraudulent,
                   f_confidence, f_risk_level>>
    /\ UNCHANGED <<routeVars, dispVars, wsVars, bcastVars, svcVars>>

\* the indicators and the patterns are what _check_fraud_indicators and
\* _detect_patterns returned
InitFraud ==
    /\ r_strategy = "rules"
    /\ RouteIdle
    /\ DispatchIdle
    /\ WsIdle
    /\ BroadcastIdle
    /\ strategy = "rules"
    /\ ServiceIdle
    /\ f_pc = "start"
    /\ f_indicators \in FraudIndicators
    /\ f_patterns \in DetectedPatterns
    /\ f_risk_score = 0
    /\ f_is_fraudulent = FALSE
    /\ f_confidence = 0
    /\ f_risk_level = "none"
    /\ f_recommended_action = "none"

NextFraud ==
    \/ FraudScore
    \/ FraudStatus
    \/ FraudLevel
    \/ FraudAction

SpecFraud == InitFraud /\ [][NextFraud]_vars

\* ------------------------------------------------------ Spec: the service
\* process_request from `self.active_requests[request.id] = {...}` on, for
\* task t that has its routing decision: the record is stored, then
\* _broadcast_update("routing_decision", routing_decision.dict()) builds its
\* message with json.dumps. When json.dumps raises, the TypeError leaves
\* _broadcast_update and process_request, and route_request answers 500.
\* Nothing suspends the task between the store and the raise.
\* routing_decision.dict() always holds the datetime of its timestamp field,
\* so the raise is the only outcome a behaviour of Spec shows: no task gets
\* to "broadcasting", and lines 262-279 of process_request do not run in
\* Spec. The send loop and _send_to_agents are exercised on their own in
\* SpecBroadcast and SpecDispatch. The aggregate is returned at line 275
\* only, so no task has one.
StoreAndBroadcast(t, request, decision) ==
    /\ UNCHANGED t_result
    /\ active_requests' = DictSet(active_requests, request.id,
                                  OpenRecord(request, decision))
    /\ t_request' = [t_request EXCEPT ![t] = request]
    /\ t_decision' = [t_decision EXCEPT ![t] = decision]
    /\ IF JsonDumpsRaises(RoutingEvent(decision))
       THEN /\ t_pc' = [t_pc EXCEPT ![t] = "done"]
            /\ t_exc' = [t_exc EXCEPT ![t] = "TypeError"]
            /\ t_http' = [t_http EXCEPT ![t] = 500]
            /\ UNCHANGED events
       ELSE /\ t_pc' = [t_pc EXCEPT ![t] = "broadcasting"]
            /\ events' = Append(events, [type |-> "routing_decision",
                                         request_id |-> request.id])
            /\ UNCHANGED <<t_exc, t_http>>

\* POST /route with the rule-based strategy: RulesRouterStrategy.route has
\* no suspension point, so the task runs from the arrival of the request to
\* the first suspension of process_request in one step
PostRouteRules(t, request) ==
    /\ strategy = "rules"
    /\ t_pc[t] = "idle"
    /\ \A earlier \in 1..(t - 1) : t_pc[earlier] # "idle"
    /\ StoreAndBroadcast(t, request, RulesRoute(request))
    /\ UNCHANGED <<strategy, lookup>>
    /\ UNCHANGED <<routeVars, dispVars, wsVars, bcastVars, fraudVars>>
\* POST /route with the model-based strategy, up to the model call
PostRouteLLM(t, request) ==
    /\ strategy = "llm"
    /\ t_pc[t] = "idle"
    /\ \A earlier \in 1..(t - 1) : t_pc[earlier] # "idle"
    /\ t_pc' = [t_pc EXCEPT ![t] = "model_call"]
    /\ t_request' = [t_request EXCEPT ![t] = request]
    /\ UNCHANGED <<strategy, active_requests, t_decision, t_http, t_exc,
                   t_result, events, lookup>>
    /\ UNCHANGED <<routeVars, dispVars, wsVars, bcastVars, fraudVars>>
\* the model call of task t ends; LLMRouterStrategy.route returns its
\* decision and process_request goes on to its first suspension
ModelCallEnds(t, out) ==
    /\ t_pc[t] = "model_call"
    /\ StoreAndBroadcast(t, t_request[t], LLMRoute(t_request[t], out))
    /\ UNCHANGED <<strategy, lookup>>
    /\ UNCHANGED <<routeVars, dispVars, wsVars, bcastVars, fraudVars>>
\* GET /requests/{request_id}
GetRequestStatus(request_id) ==
    /\ lookup' = GetRequestStatusResult(active_requests, request_id)
    /\ UNCHANGED <<strategy, active_requests, t_pc, t_request, t_decision,
                   t_http, t_exc, t_result, events>>
    /\ UNCHANGED <<routeVars, dispVars, wsVars, bcastVars, fraudVars>>
Init ==
    /\ r_strategy = "rules"
    /\ RouteIdle
    /\ DispatchIdle
    /\ WsIdle
    /\ BroadcastIdle
    /\ strategy \in {"llm", "rules"}
    /\ ServiceIdle
    /\ FraudIdle

Next ==
    \/ \E t \in Tasks, request \in ServiceRequests : PostRouteRules(t, request)
    \/ \E t \in Tasks, request \in ServiceRequests : PostRouteLLM(t, request)
    \/ \E t \in Tasks, out \in ServiceModelOutcomes : ModelCallEnds(t, out)
    \/ \E request_id \in ReqIds : GetRequestStatus(request_id)
    \/ \E c \in ServiceConns : WsConnect(c)
    \/ \E c \in ServiceConns, send \in {"ok", "WebSocketDisconnect", "RuntimeError"} :
          WsMessage(c, send)
    \/ \E c \in ServiceConns : WsDisconnect(c)

Spec == Init /\ [][Next]_vars

\* ================================================================= claims
\* positions of list at which x occurs
Positions(list, x) == {i \in 1..Len(list) : list[i] = x}

\* the ids of list, as a set
Elements(list) == {list[i] : i \in 1..Len(list)}

\* no id occurs twice in list
Distinct(list) == \A i, j \in 1..Len(list) : list[i] = list[j] => i = j

\* C1: every request submitted to process_request reaches status completed
\* in the ledger and gets its aggregate back (HTTP 200): a request whose
\* handling has ended has not ended in an error, and its record is completed.
C1_RequestCompletes ==
    \A t \in Tasks :
        t_pc[t] = "done" =>
            /\ t_http[t] = 200
            /\ t_request[t].id \in DOMAIN active_requests
            /\ active_requests[t_request[t].id].status = "completed"

\* C2: in one dispatch the calls to all selected registered experts are
\* started before any of them is waited on, and the dispatch lasts as long
\* as its slowest call, not the sum of the calls.
C2_AllStartedBeforeAwaited ==
    /\ d_pc = "in_call" => d_started = 1..Len(d_tasks)
    /\ d_pc = "returned" => d_elapsed <= d_slowest

\* C3: in one broadcast, every connection that is in the list when the
\* broadcast starts (and is still subscribed when it ends) and whose send
\* does not fail has received the event when the broadcast ends.
C3_EveryLiveConnectionReceives ==
    \A b \in Broadcasts :
        b_pc[b] = "done" =>
            \A c \in b_snapshot[b] :
                (c \in Elements(websocket_connections) /\ <<b, c>> \notin b_failed)
                    => <<b, c>> \in b_delivered

\* C4: when the model call raises or its output does not parse, the
\* decision the model-based strategy returns has the request id, selected
\* agents, reasoning and confidence of the rule-based decision for the same
\* request, no further field, and route() does not raise.
C4_FallbackEqualsRules ==
    (r_pc = "returned" /\ r_strategy = "llm" /\ r_out.t \in {"raises", "not_json"})
        => /\ r_decision.request_id = RulesRoute(r_request).request_id
           /\ r_decision.selected_agents = RulesRoute(r_request).selected_agents
           /\ r_decision.reasoning = RulesRoute(r_request).reasoning
           /\ r_decision.confidence = RulesRoute(r_request).confidence
           /\ DOMAIN r_decision = DOMAIN RulesRoute(r_request)
           /\ ~r_raised

\* C4 witness: the model returned text that is not JSON for a general
\* request, and route() returned the two agents of the content analysis
C4_Witness ==
    /\ r_pc = "returned"
    /\ r_strategy = "llm"
    /\ r_out.t = "not_json"
    /\ r_request.type = "general"
    /\ r_decision.selected_agents = <<"credit-agent", "fraud-agent">>

\* C5: when an expert call times out or fails, the dispatch stores a failure
\* entry under that agent's id; an expert that answers has its success entry
\* with its answer; each agent's entry is the one of its own (last) call
\* whatever the other calls did, and the dispatch does not raise.
C5_FailureIsolated ==
    d_pc = "returned" =>
        /\ ~d_raised
        /\ \A j \in 1..Len(d_tasks) :
              (\A k \in Positions(d_tasks, d_tasks[j]) : k <= j) =>
                  /\ d_tasks[j] \in DOMAIN d_responses
                  /\ d_responses[d_tasks[j]].agent_id = d_tasks[j]
                  /\ d_ended[j].outcome.t \in {"timeout", "error"}
                        => IsFailure(d_responses[d_tasks[j]])
                  /\ d_ended[j].outcome.t = "ok"
                        => /\ IsSuccess(d_responses[d_tasks[j]])
                           /\ d_responses[d_tasks[j]].response = "answer"

\* C5 witness: a dispatch to two experts returned after the first call timed
\* out and the second answered
C5_Witness ==
    /\ d_pc = "returned"
    /\ Len(d_tasks) = 2
    /\ d_tasks[1] # d_tasks[2]
    /\ d_ended[1].outcome.t = "timeout"
    /\ d_ended[2].outcome.t = "ok"
    /\ IsFailure(d_responses[d_tasks[1]])
    /\ IsSuccess(d_responses[d_tasks[2]])

C8_AbsentIdSkipped ==
    (/\ d_pc = "returned"
     /\ Distinct(d_ids)
     /\ Cardinality(Elements(d_ids) \ RegistryIds) = 1)
        => /\ Cardinality(DOMAIN d_responses) = Len(d_ids) - 1
           /\ DOMAIN d_responses = Elements(d_ids) \cap RegistryIds
           /\ \A a \in NameableIds \ RegistryIds : d_calls[a] = 0
           /\ ~d_raised

\* C8 witness: the dispatch of [fraud-agent, unknown-agent] returned one entry
C8_Witness ==
    /\ d_pc = "returned"
    /\ d_ids = <<"fraud-agent", UnknownAgent>>
    /\ DOMAIN d_responses = {"fraud-agent"}

\* C9: for any list of selected ids a routing decision can carry, also one
\* naming an agent twice, one dispatch issues at most one call to each
\* expert, and the returned mapping has one entry per valid selected id.
C9_AtMostOneCallPerExpert ==
    /\ \A a \in NameableIds : d_calls[a] <= 1
    /\ d_pc = "returned" => DOMAIN d_responses = Elements(d_ids) \cap RegistryIds

\* C10: for a request of type credit, fraud or esg the rule-based strategy
\* selects exactly one agent id, the registry entry of that type, whatever
\* the content.
C10_TypeSelectsSpecialist ==
    (r_pc = "returned" /\ r_strategy = "rules"
        /\ r_request.type \in {"credit", "fraud", "esg"})
        => \E i \in 1..Len(AGENT_REGISTRY) :
              /\ AGENT_REGISTRY[i].type = r_request.type
              /\ r_decision.selected_agents = <<AGENT_REGISTRY[i].id>>

\* C10 witness: a fraud request whose content has the keywords of all three
\* specialists was routed to the fraud agent alone
C10_Witness ==
    /\ r_pc = "returned"
    /\ r_strategy = "rules"
    /\ r_request.type = "fraud"
    /\ r_request.content = ContentAll
    /\ r_decision.selected_agents = <<"fraud-agent">>

C12_DefaultAgent ==
    (r_pc = "returned" /\ r_strategy = "rules") =>
        /\ r_decision.selected_agents # << >>
        /\ (/\ r_request.type = "general"
            /\ ~AnyWordIn(CreditWords \cup FraudWords \cup EsgWords,
                          Lower(r_request.content)))
               => r_decision.selected_agents = <<"credit-agent">>

\* C12 witness: the general request "hello" was routed to the credit agent
C12_Witness ==
    /\ r_pc = "returned"
    /\ r_strategy = "rules"
    /\ r_request.type = "general"
    /\ r_request.content = ContentHello
    /\ r_decision.selected_agents = <<"credit-agent">>

\* C13: with the rule-based strategy configured, the POST of a fraud request
\* with content "check this transaction" returns an aggregate (HTTP 200)
\* whose routing selects exactly [fraud-agent] and whose responses have
\* exactly one entry, keyed fraud-agent.
C13_FraudEndToEnd ==
    \A t \in Tasks :
        (/\ strategy = "rules"
         /\ t_pc[t] = "done"
         /\ t_request[t].type = "fraud"
         /\ t_request[t].content = ContentCheck)
            => /\ t_http[t] = 200
               /\ "routing" \in DOMAIN t_result[t]
               /\ t_result[t].routing.selected_agents = <<"fraud-agent">>
               /\ DOMAIN t_result[t].responses = {"fraud-agent"}

\* the connections call b has delivered its event to
DeliveredTo(delivered, b) == {c \in Conns : <<b, c>> \in delivered}

C15_EmptyBroadcast ==
    [][ \A b \in Broadcasts :
            (/\ b_pc[b] = "idle"
             /\ b_pc'[b] # "idle"
             /\ websocket_connections = << >>)
                => /\ b_pc'[b] = "done"
                   /\ b_exc'[b] = "none"
                   /\ websocket_connections' = websocket_connections
                   /\ active_requests' = active_requests
      ]_vars

RecordChanges(id) ==
    \/ (id \in DOMAIN active_requests) # (id \in DOMAIN active_requests')
    \/ /\ id \in DOMAIN active_requests
       /\ id \in DOMAIN active_requests'
       /\ active_requests[id] # active_requests'[id]

\* C17: under any interleaving of the request tasks, a ledger record is
\* created or changed only by a step of a task whose request has the
\* record's id; a step of a task leaves the records of all other ids as
\* they are.
C17_LedgerIsolation ==
    [][ \A id \in ReqIds :
            RecordChanges(id) =>
                \E t \in Tasks : /\ t_pc'[t] # t_pc[t]
                                 /\ t_request'[t].id = id
      ]_vars

\* C17 witness: two tasks with different request ids were interleaved (the
\* second request arrived while the model call of the first was running,
\* and both calls have ended) and each id has the record of its own task
C17_Witness ==
    /\ strategy = "llm"
    /\ t_pc[1] = "done"
    /\ t_pc[2] = "done"
    /\ t_request[1].id = "r1"
    /\ t_request[2].id = "r2"
    /\ active_requests["r1"] = OpenRecord(t_request[1], t_decision[1])
    /\ active_requests["r2"] = OpenRecord(t_request[2], t_decision[2])
    /\ t_decision[1] # t_decision[2]

\* C18: no entry of active_requests is ever removed: an id that lookup can
\* find stays findable after every step (requests, lookups, WebSocket
\* traffic, also a request that ends in an error).
C18_NeverRemoved ==
    [][DOMAIN active_requests \subseteq DOMAIN active_requests']_vars

\* C18 witness: two requests with different ids have ended, the lookup of
\* one of them has answered, and both ids are in the ledger
C18_Witness ==
    /\ \A t \in Tasks : t_pc[t] = "done"
    /\ DOMAIN active_requests = {"r1", "r2"}
    /\ lookup.code = 200
    /\ lookup.body.request.id = "r2"

\* C19: the record process_request stores has status processing and empty
\* responses, and it is stored only once route() has returned a decision:
\* every record carries the decision of a task whose routing has ended, and
\* an id in use only by tasks still waiting for the model has no record. A
\* lookup answered before the record is completed returns it with status
\* processing (no step of Spec completes a record, see C1).
C19_OpenedRecord ==
    /\ \A id \in DOMAIN active_requests :
          /\ active_requests[id].status = "processing"
          /\ active_requests[id].responses = EmptyDict
          /\ active_requests[id].request.id = id
          /\ "selected_agents" \in DOMAIN active_requests[id].routing
          /\ \E t \in Tasks :
                /\ t_pc[t] \notin {"idle", "model_call"}
                /\ t_request[t] = active_requests[id].request
                /\ t_decision[t] = active_requests[id].routing
    /\ \A id \in ReqIds :
          (\A t \in Tasks : t_request[t] # NoRequest /\ t_request[t].id = id
                                => t_pc[t] = "model_call")
              => id \notin DOMAIN active_requests
    /\ lookup.code = 200 =>
          /\ lookup.body.status = "processing"
          /\ lookup.body.responses = EmptyDict
          /\ "selected_agents" \in DOMAIN lookup.body.routing

\* C19 witness: the lookup of r1 answered with its record in status
\* processing while the request r2 was waiting for the model, without record
C19_Witness ==
    /\ lookup.code = 200
    /\ lookup.body.request.id = "r1"
    /\ lookup.body.status = "processing"
    /\ \E t \in Tasks : t_pc[t] = "model_call" /\ t_request[t].id = "r2"
    /\ "r2" \notin DOMAIN active_requests

C21_SelectedIdsRegistered ==
    /\ \A id \in DOMAIN active_requests :
          Elements(active_requests[id].routing.selected_agents) \subseteq RegistryIds
    /\ \A t \in Tasks :
          t_decision[t] # NoDecision
              => Elements(t_decision[t].selected_agents) \subseteq RegistryIds

\* C22: every decision route() returns, from either strategy, has a
\* confidence between 0 and 1 (0..100 hundredths), whatever confidence the
\* model's output carries.
C22_ConfidenceInRange ==
    r_pc = "returned" =>
        /\ r_decision.confidence >= 0
        /\ r_decision.confidence <= 100

\* C23: the decision of the rule-based strategy is a function of the
\* request's id, type and content alone, also for a request routed after
\* others, and the call changes nothing but its own result: the strategy
\* object, the ledger and the connection list are as before.
C23_RulesStateless ==
    [][ (r_strategy = "rules" /\ r_pc = "idle" /\ r_pc' = "returned") =>
            /\ r_decision'.request_id = r_request'.id
            /\ r_decision'.selected_agents =
                   (CASE r_request'.type = "credit" -> <<"credit-agent">>
                      [] r_request'.type = "fraud" -> <<"fraud-agent">>
                      [] r_request'.type = "esg" -> <<"esg-agent">>
                      [] OTHER -> GeneralAgents(r_request'.content))
            /\ r_decision'.reasoning = RulesRoute(r_request').reasoning
            /\ r_decision'.confidence = RulesConfidence
            /\ r_strategy' = r_strategy
            /\ strategy' = strategy
            /\ active_requests' = active_requests
            /\ websocket_connections' = websocket_connections
      ]_vars

\* C23 witness: the second call of the rule-based strategy returned, for a
\* general request, the decision of the content analysis with confidence 0.75
C23_Witness ==
    /\ r_strategy = "rules"
    /\ r_pc = "returned"
    /\ r_routed = 2
    /\ r_request.type = "general"
    /\ r_request.content = ContentEsgScore
    /\ r_decision.selected_agents = <<"credit-agent", "esg-agent">>
    /\ r_decision.confidence = RulesConfidence

InFlight == d_started \ (1..Len(d_ended))

\* C27: _send_to_agents returns only after every call it issued has ended
\* in an answer, an error or a timeout: when it has returned no call is in
\* flight, every task it built has been called and has ended, and every
\* POST issued belongs to an ended call.
C27_NoCallInFlightAtReturn ==
    d_pc = "returned" =>
        /\ InFlight = {}
        /\ Len(d_ended) = Len(d_tasks)
        /\ d_started = 1..Len(d_tasks)
        /\ \A a \in NameableIds : d_calls[a] = Cardinality(Positions(d_tasks, a))
        /\ \A j \in 1..Len(d_ended) :
              d_ended[j].outcome.t \in {"ok", "ok_no_response", "ok_bad_type",
                                        "timeout", "error"}

\* C27 witness: a dispatch to two experts returned after the first call
\* answered and the second timed out
C27_Witness ==
    /\ d_pc = "returned"
    /\ Len(d_tasks) = 2
    /\ d_ended[1].outcome.t = "ok"
    /\ d_ended[2].outcome.t = "timeout"
    /\ d_started = {1, 2}

\* C28: for one request the model-based strategy calls the model exactly
\* once, also when the call fails or its output does not decode (the
\* rule-based strategy then decides, without a second call), and the
\* rule-based strategy never calls it; the count starts again with each
\* request.
C28_ModelCalledOnce ==
    /\ r_model_calls <= 1
    /\ (r_strategy = "llm" /\ r_pc \in {"model_call", "returned"}) => r_model_calls = 1
    /\ r_strategy = "rules" => r_model_calls = 0
    /\ (r_strategy = "llm" /\ r_pc = "returned" /\ ~LLMDecodes(r_out))
           => r_decision.selected_agents = RulesRoute(r_request).selected_agents

\* C28 witness: the second request routed by the model-based strategy got
\* the rule-based decision after its one model call raised
C28_Witness ==
    /\ r_strategy = "llm"
    /\ r_pc = "returned"
    /\ r_routed = 2
    /\ r_out.t = "raises"
    /\ r_model_calls = 1
    /\ r_decision.selected_agents = RulesRoute(r_request).selected_agents

\* the value of a field of the model's JSON object is missing or not of the
\* type RoutingDecision declares for it
FieldInvalid(value, type) == value # JMissing /\ value.t # type

\* the model's value of a field when it is present and valid, else the default
FieldOrDefault(value, type, default) ==
    IF value = JMissing \/ value.t # type THEN default ELSE value.v

C30_RecordImmutable ==
    [][ \A id \in DOMAIN active_requests :
            Cardinality({t \in Tasks : /\ t_request'[t] # NoRequest
                                       /\ t_request'[t].id = id}) <= 1
                => /\ id \in DOMAIN active_requests'
                   /\ active_requests'[id].request = active_requests[id].request
                   /\ active_requests'[id].routing = active_requests[id].routing
                   /\ active_requests[id].status = "completed"
                         => active_requests'[id].status = "completed"
      ]_vars

\* C30 witness: the record of r1, stored by the first task, is as that task
\* stored it after a second request, r2, was routed by the model and stored
C30_Witness ==
    /\ strategy = "llm"
    /\ t_pc[1] = "done"
    /\ t_pc[2] = "done"
    /\ t_request[1].id = "r1"
    /\ t_request[2].id = "r2"
    /\ active_requests["r1"].request = t_request[1]
    /\ active_requests["r1"].routing = t_decision[1]
    /\ active_requests["r1"].status = "processing"
    /\ lookup.code = 200

\* the number of events of the given type broadcast for request id
EventCount(type, id) ==
    Cardinality({i \in 1..Len(events) :
                    events[i] = [type |-> type, request_id |-> id]})

\* the tasks whose request carries the id and whose handling has ended
Handled(id) ==
    {t \in Tasks : /\ t_pc[t] = "done"
                   /\ t_request[t].id = id}

\* C31: for each request exactly one routing_decision broadcast and exactly
\* one request_completed broadcast are made: for every request id, the
\* events of each of the two types broadcast for it are as many as the
\* requests with that id whose handling has ended.
C31_OneBroadcastPerEvent ==
    \A id \in ReqIds :
        /\ EventCount("routing_decision", id) = Cardinality(Handled(id))
        /\ EventCount("request_completed", id) = Cardinality(Handled(id))

\* the decision names no agent of the registry
SelectsNoRegistered(decision) ==
    \A i \in 1..Len(decision.selected_agents) :
        decision.selected_agents[i] \notin RegistryIds

\* C32: when the routing decision selects no agent, or only ids absent from
\* the registry, the request still completes: once its handling has ended
\* the caller has an aggregate (HTTP 200) with empty outcomes, its record
\* has status completed with empty outcomes, and both lifecycle events of
\* the request have been broadcast.
C32_EmptySelectionCompletes ==
    \A t \in Tasks :
        (/\ t_pc[t] = "done"
         /\ SelectsNoRegistered(t_decision[t]))
            => /\ t_http[t] = 200
               /\ "responses" \in DOMAIN t_result[t]
               /\ t_result[t].responses = EmptyDict
               /\ active_requests[t_request[t].id].status = "completed"
               /\ active_requests[t_request[t].id].responses = EmptyDict
               /\ EventCount("routing_decision", t_request[t].id) >= 1
               /\ EventCount("request_completed", t_request[t].id) >= 1

\* C33: when two requests carry the same id the ledger keeps a single
\* record under that id, neither caller gets an error or a rejection, and
\* after both requests have finished the record has status completed.
C33_SameIdBothComplete ==
    \A t1, t2 \in Tasks :
        (/\ t1 < t2
         /\ t_pc[t1] = "done"
         /\ t_pc[t2] = "done"
         /\ t_request[t1].id = t_request[t2].id)
            => /\ t_request[t1].id \in DOMAIN active_requests
               /\ active_requests[t_request[t1].id].request
                      \in {t_request[t1], t_request[t2]}
               /\ t_http[t1] = 200
               /\ t_http[t2] = 200
               /\ t_exc[t1] = "none"
               /\ t_exc[t2] = "none"
               /\ active_requests[t_request[t1].id].status = "completed"

C35_BothFailuresAbsorbed ==
    \A b1, b2 \in Broadcasts, c \in Conns :
        (/\ b1 # b2
         /\ <<b1, c>> \in b_failed
         /\ <<b2, c>> \in b_failed)
            => /\ c \notin Elements(websocket_connections)
               /\ b_pc[b1] # "raised"
               /\ b_pc[b2] # "raised"
               /\ b_exc[b1] = "none"
               /\ b_exc[b2] = "none"

\* C36: the unsubscription of a connection whose client disconnects never
\* raises and leaves websocket_connections without the connection, also
\* when a failed broadcast send has removed the connection before; a
\* connection is in websocket_connections at most once.
C36_UnsubscribeNeverRaises ==
    /\ \A c \in Conns :
          /\ ws_pc[c] # "crashed"
          /\ ws_pc[c] = "closed" => c \notin Elements(websocket_connections)
    /\ Distinct(websocket_connections)

\* the recommended actions that are a BLOCK
IsBlock(action) ==
    action \in {GetRecommendedAction(TRUE, "critical"),
                GetRecommendedAction(TRUE, "high")}

\* C37: in the fraud agent, for every combination of the six indicators and
\* every list of detected known patterns, the risk score lies in 0..100, a
\* transaction with a risk score of 50 or more is flagged fraudulent, and
\* the recommended action is a BLOCK only when the transaction is flagged
\* fraudulent and its risk level is high or critical (score of 60 or more).
C37_ScoreStatusAction ==
    /\ f_pc \in {"scored", "judged", "levelled", "done"}
          => f_risk_score \in 0..100
    /\ f_pc \in {"judged", "levelled", "done"}
          => (f_risk_score >= 50 => f_is_fraudulent)
    /\ f_pc = "done"
          => (IsBlock(f_recommended_action)
                 => /\ f_is_fraudulent
                    /\ f_risk_level \in {"high", "critical"}
                    /\ f_risk_score >= 60)

\* C37 witness: all six indicators set and two patterns detected; the
\* weights add up to 145, the score is 100, the transaction is flagged and
\* the action is the BLOCK of the critical level
C37_Witness ==
    /\ f_pc = "done"
    /\ \A k \in DOMAIN f_indicators : f_indicators[k]
    /\ Len(f_patterns) = 2
    /\ f_risk_score = 100
    /\ f_is_fraudulent
    /\ f_risk_level = "critical"
    /\ IsBlock(f_recommended_action)

====
